---- MODULE Spec2Model ----
(***************************************************************************)
(* Model of "03_Deploy Tesseract Model.py": the OCRModel.predict path      *)
(* (decode, normalise to JPEG, OCR, JSON response) and the notebook's      *)
(* log -> register -> create-endpoint sequence against a model registry    *)
(* and a serving platform.                                                 *)
(***************************************************************************)
EXTENDS Integers, Sequences, FiniteSets, TLC

VARIABLES
    pc,           \* position inside OCRModel.predict: idle/read/open/normalize/ocr
    model_input,  \* the table handed to predict: column name -> sequence of cells
    image_bytes,  \* local image_bytes (lines 71, 81)
    image,        \* local image (lines 73, 78, 82)
    response,     \* the value predict returned (the JSON object), None before
    exc,          \* the exception a step of the current call raised, else None
    raised,       \* TRUE when that exception left predict (no response)
    ocrCalls,     \* calls of pytesseract.image_to_string in the current call
    engineRuns,   \* runs of the tesseract binary in the current call
    handed,       \* the image handed to pytesseract.image_to_string, None before
    reencoded,    \* TRUE when lines 78-82 ran in the current call
    failedAt      \* the step of the current call that raised, "none" otherwise

predictVars == <<pc, model_input, image_bytes, image, response, exc, raised,
                 ocrCalls, engineRuns, handed, reencoded, failedAt>>

VARIABLES
    config,      \* the values imported from config.py (line 41)
    nbpc,        \* the notebook's position: ready/log/register/endpoint
    runs,        \* notebook runs started so far
    run_id,      \* run.info.run_id of the current run (line 119), None before
    logged,      \* model URIs the tracking server holds
    registry,    \* registered name -> sequence of versions (source URI of each)
    registered,  \* the model version line 133 created in the current run
    endpoints,   \* serving endpoints: name -> config, for the names that exist
    endpoint     \* the value create_endpoint returned in the current run

notebookVars == <<config, nbpc, runs, run_id, logged, registry, registered,
                  endpoints, endpoint>>

None == [none |-> TRUE]

(***************************************************************************)
(* Rasters.  An image is described by what Pillow reports (format, mode)   *)
(* and by what an OCR engine can read from its pixels:                     *)
(*   ink    text legible in the colour channels alone ("" when uniform);   *)
(*   cut    text whose shape is carried by the alpha channel only, i.e.    *)
(*          opaque dark glyphs on a fully transparent dark background;     *)
(*   detail "bold" glyphs survive lossy compression, "fine" glyphs do not  *)
(*          and come out "smeared";                                        *)
(*   whole  FALSE when the pixel data of the file is truncated.            *)
(***************************************************************************)
TextList == <<"", "DAIS", "2025">>

Texts == {TextList[i] : i \in 1..Len(TextList)}

ModeList == <<"RGB", "RGBA">>

DetailList == <<"bold", "fine", "smeared">>

FormatList == <<"JPEG", "PNG", "BMP", "ICO">>

Formats == {FormatList[i] : i \in 1..Len(FormatList)}

IndexOf(seq, x) == CHOOSE i \in 1..Len(seq) : seq[i] = x

\* The leading bytes by which Image.open identifies a file (line 73).
Magic(fmt) ==
    CASE fmt = "JPEG" -> <<255, 216, 255>>
      [] fmt = "PNG"  -> <<137, 80, 78, 71>>
      [] fmt = "BMP"  -> <<66, 77>>
      [] fmt = "ICO"  -> <<0, 0, 1, 0>>

\* Modes a container can hold.
ModesOf(fmt) ==
    CASE fmt = "JPEG" -> {"RGB"}
      [] fmt = "PNG"  -> {"RGB", "RGBA"}
      [] fmt = "BMP"  -> {"RGB"}
      [] fmt = "ICO"  -> {"RGBA"}

IsPrefix(p, s) == Len(p) <= Len(s) /\ SubSeq(s, 1, Len(p)) = p

\* A file: magic, one header byte (mode), three pixel bytes (ink, cut, detail).
EncodeFile(img) ==
    Magic(img.format)
        \o <<IndexOf(ModeList, img.mode)>>
        \o <<IndexOf(TextList, img.ink), IndexOf(TextList, img.cut),
             IndexOf(DetailList, img.detail)>>

\* What Image.open finds behind the magic of format fmt: the header is read
\* eagerly, the pixels lazily (a truncated file opens and fails on load).
OpenAs(fmt, bytes) ==
    LET rest == SubSeq(bytes, Len(Magic(fmt)) + 1, Len(bytes))
    IN  IF Len(rest) = 0 \/ rest[1] \notin 1..Len(ModeList)
           \/ ModeList[rest[1]] \notin ModesOf(fmt)
        THEN None
        ELSE IF Len(rest) = 4 /\ rest[2] \in 1..Len(TextList)
                /\ rest[3] \in 1..Len(TextList) /\ rest[4] \in 1..Len(DetailList)
             THEN [format |-> fmt, mode |-> ModeList[rest[1]],
                   ink |-> TextList[rest[2]], cut |-> TextList[rest[3]],
                   detail |-> DetailList[rest[4]], whole |-> TRUE]
             ELSE [format |-> fmt, mode |-> ModeList[rest[1]],
                   ink |-> "", cut |-> "", detail |-> "bold", whole |-> FALSE]

\* Image.open(io.BytesIO(bytes)), line 73 and line 82: None stands for
\* UnidentifiedImageError.
ImageOpen(bytes) ==
    IF \E f \in Formats : IsPrefix(Magic(f), bytes)
    THEN OpenAs(CHOOSE f \in Formats : IsPrefix(Magic(f), bytes), bytes)
    ELSE None

\* image.convert('RGB'), line 78: the alpha band is dropped, the colour
\* channels are kept as they are, so a shape carried by alpha alone is lost.
\* The result is a new in-memory image: its format attribute is Python's None.
ConvertRGB(img) ==
    [format |-> "None", mode |-> "RGB", ink |-> img.ink, cut |-> "",
     detail |-> img.detail, whole |-> TRUE]

\* image.save(output, format='JPEG'); output.getvalue(), lines 79-81: lossy.
SaveJPEG(img) ==
    EncodeFile([format |-> "JPEG", mode |-> "RGB", ink |-> img.ink, cut |-> "",
                detail |-> IF img.detail = "bold" THEN "bold" ELSE "smeared"])

(***************************************************************************)
(* base64.b64encode(image_bytes).decode('utf-8'), line 176.                *)
(***************************************************************************)
B64Alphabet ==
    <<"A","B","C","D","E","F","G","H","I","J","K","L","M","N","O","P",
      "Q","R","S","T","U","V","W","X","Y","Z","a","b","c","d","e","f",
      "g","h","i","j","k","l","m","n","o","p","q","r","s","t","u","v",
      "w","x","y","z","0","1","2","3","4","5","6","7","8","9","+","/">>

B64Group(b1, b2, b3, n) ==
    LET v == b1 * 65536 + b2 * 256 + b3
        c1 == B64Alphabet[(v \div 262144) + 1]
        c2 == B64Alphabet[((v \div 4096) % 64) + 1]
        c3 == B64Alphabet[((v \div 64) % 64) + 1]
        c4 == B64Alphabet[(v % 64) + 1]
    IN  CASE n = 3 -> <<c1, c2, c3, c4>>
          [] n = 2 -> <<c1, c2, c3, "=">>
          [] n = 1 -> <<c1, c2, "=", "=">>

RECURSIVE B64Encode(_)
B64Encode(bytes) ==
    CASE Len(bytes) = 0 -> <<>>
      [] Len(bytes) = 1 -> B64Group(bytes[1], 0, 0, 1)
      [] Len(bytes) = 2 -> B64Group(bytes[1], bytes[2], 0, 2)
      [] OTHER -> B64Group(bytes[1], bytes[2], bytes[3], 3)
                      \o B64Encode(SubSeq(bytes, 4, Len(bytes)))

\* Python values a cell of the 'image' column can hold.
Bytes(b) == [type |-> "bytes", val |-> b]

Str(s) == [type |-> "str", val |-> s]

NoneCell == [type |-> "NoneType", val |-> <<>>]

(***************************************************************************)
(* Exceptions: the classes the predict path can raise, with their bases.   *)
(***************************************************************************)
ExcParent ==
    [KeyError |-> "LookupError", IndexError |-> "LookupError",
     LookupError |-> "Exception", TypeError |-> "Exception",
     OSError |-> "Exception", UnidentifiedImageError |-> "OSError",
     TesseractNotFoundError |-> "OSError", RuntimeError |-> "Exception",
     TesseractError |-> "RuntimeError", Exception |-> "BaseException"]

RECURSIVE IsInstance(_, _)
IsInstance(cls, base) ==
    \/ cls = base
    \/ cls \in DOMAIN ExcParent /\ IsInstance(ExcParent[cls], base)

Exc(cls, msg) == [cls |-> cls, msg |-> msg]

\* A handler that names a narrower class than line 87 does.
ExceptOSError == "OSError"

\* The class named by the except clause, line 87.
ExceptClause == "Exception"

\* An error body that reuses the success key.
ErrorAsText(e) == [text |-> e.msg]

\* json.dumps({'error': str(e)}), line 88.
ErrorResponse(e) == [error |-> e.msg]

\* json.dumps({'text': text}), line 86.
TextResponse(t) == [text |-> t]

\* A handler that tries the OCR step again.
RetryOcr(step) == IF step = "ocr" THEN "ocr" ELSE "idle"

\* Where control goes once a step has raised: the handler returns (line 88).
AfterRaise(step) == "idle"

\* A condition that converts every image.
ConvertAlways(img) == TRUE

\* A condition that converts none.
ConvertNever(img) == FALSE

\* The test of line 77.
NeedsConversion(img) == img.format # "JPEG"

(***************************************************************************)
(* The OCR binding and engine, line 85.                                    *)
(***************************************************************************)
\* Formats pytesseract accepts; anything else is a TypeError.
OcrSupported == {"JPEG", "PNG", "BMP"}

\* What the engine is shown: the binding pastes an image that has an alpha
\* band onto a white background, so a shape carried by alpha becomes dark
\* glyphs on white.
Shown(img) == IF img.mode = "RGBA" /\ img.cut # "" THEN img.cut ELSE img.ink

\* The strings the engine can return for an image: the text shown, or, for
\* smeared glyphs, any string.
EngineTexts(img) == IF img.detail = "smeared" THEN Texts ELSE {Shown(img)}

\* Outcomes of starting the tesseract binary.
EngineOutcomes == {"ok", "missing", "crash"}

(***************************************************************************)
(* Inputs of predict.                                                      *)
(***************************************************************************)
InputImages ==
    {[format |-> f, mode |-> m, ink |-> i, cut |-> c, detail |-> d] :
        f \in Formats, m \in {"RGB", "RGBA"}, i \in Texts, c \in Texts,
        d \in {"bold", "fine"}}

\* Well-formed rasters: a mode the container holds; a shape carried by alpha
\* needs an alpha band and leaves the colour channels uniform; a raster
\* without glyphs has no glyph detail.
WellFormed(img) ==
    /\ img.mode \in ModesOf(img.format)
    /\ img.cut # "" => img.mode = "RGBA" /\ img.ink = ""
    /\ img.ink = "" /\ img.cut = "" => img.detail = "bold"

Files == {EncodeFile(img) : img \in {i \in InputImages : WellFormed(i)}}

\* Files cut off after the header: they open, their pixels do not load.
TruncatedFiles ==
    {Magic(f) \o <<IndexOf(ModeList, m)>> : f \in Formats, m \in {"RGB", "RGBA"}}

\* Byte sequences that are no image: empty, a PDF header, a bare JPEG magic.
JunkFiles == {<< >>, <<37, 80, 68, 70>>, Magic("JPEG")}

Cells ==
    {Bytes(b) : b \in Files \cup TruncatedFiles \cup JunkFiles}
        \cup {Str(B64Encode(b)) : b \in Files}
        \cup {NoneCell}

Tables ==
    {[image |-> <<c>>] : c \in Cells}
        \cup {[image |-> << >>]}
        \cup {[img |-> <<c>>] : c \in {Bytes(b) : b \in JunkFiles}}

(***************************************************************************)
(* OCRModel.predict, lines 68-88, one action per statement group.          *)
(***************************************************************************)
\* The except clause of lines 87-88 applied to an exception raised in `step`.
Raise(step, e) ==
    /\ pc' = AfterRaise(step)
    /\ failedAt' = step
    /\ exc' = e
    /\ IF IsInstance(e.cls, ExceptClause)
       THEN response' = ErrorResponse(e) /\ raised' = FALSE
       ELSE response' = None /\ raised' = TRUE

\* A call of predict(context, model_input) begins (line 68).
PredictCall(mi) ==
    /\ UNCHANGED notebookVars
    /\ pc = "idle"
    /\ pc' = "read"
    /\ model_input' = mi
    /\ image_bytes' = None
    /\ image' = None
    /\ response' = None
    /\ exc' = None
    /\ raised' = FALSE
    /\ ocrCalls' = 0
    /\ engineRuns' = 0
    /\ handed' = None
    /\ reencoded' = FALSE
    /\ failedAt' = "none"

\* image_bytes = model_input['image'].iloc[0]; len(image_bytes): lines 71-72.
PredictRead ==
    /\ UNCHANGED notebookVars
    /\ pc = "read"
    /\ IF "image" \notin DOMAIN model_input
       THEN Raise("read", Exc("KeyError", "'image'"))
                /\ UNCHANGED image_bytes
       ELSE IF Len(model_input.image) = 0
       THEN Raise("read", Exc("IndexError",
                              "single positional indexer is out-of-bounds"))
                /\ UNCHANGED image_bytes
       ELSE IF model_input.image[1].type = "NoneType"
       THEN Raise("read", Exc("TypeError",
                              "object of type 'NoneType' has no len()"))
                /\ image_bytes' = model_input.image[1]
       ELSE /\ image_bytes' = model_input.image[1]
            /\ pc' = "open"
            /\ UNCHANGED <<response, exc, raised, failedAt>>
    /\ UNCHANGED <<model_input, image, ocrCalls, engineRuns, handed, reencoded>>

\* io.BytesIO(v) with base64 text decoded first.
RECURSIVE B64Decode(_)
B64Decode(chars) ==
    IF Len(chars) < 4 THEN << >>
    ELSE LET n(c) == IF c = "=" THEN 0 ELSE IndexOf(B64Alphabet, c) - 1
             v == n(chars[1]) * 262144 + n(chars[2]) * 4096
                      + n(chars[3]) * 64 + n(chars[4])
             all == <<v \div 65536, (v \div 256) % 256, v % 256>>
             keep == IF chars[3] = "=" THEN 1 ELSE IF chars[4] = "=" THEN 2 ELSE 3
         IN  SubSeq(all, 1, keep) \o B64Decode(SubSeq(chars, 5, Len(chars)))

BytesIODecoding(v) == IF v.type = "str" THEN B64Decode(v.val) ELSE v.val

\* io.BytesIO(image_bytes), line 73: the buffer's content, or None for the
\* TypeError a value that is not bytes-like raises.
BytesIO(v) == IF v.type = "bytes" THEN v.val ELSE None

\* image = Image.open(io.BytesIO(image_bytes)): lines 73-74.
PredictOpen ==
    /\ UNCHANGED notebookVars
    /\ pc = "open"
    /\ IF BytesIO(image_bytes) = None
       THEN Raise("open", Exc("TypeError",
                              "a bytes-like object is required, not 'str'"))
                /\ UNCHANGED image
       ELSE IF ImageOpen(BytesIO(image_bytes)) = None
       THEN Raise("open", Exc("UnidentifiedImageError",
                              "cannot identify image file"))
                /\ UNCHANGED image
       ELSE /\ image' = ImageOpen(BytesIO(image_bytes))
            /\ pc' = "normalize"
            /\ UNCHANGED <<response, exc, raised, failedAt>>
    /\ UNCHANGED <<model_input, image_bytes, ocrCalls, engineRuns, handed,
                   reencoded>>

\* if image.format != 'JPEG': convert, save, re-open: lines 76-84.
PredictNormalize ==
    /\ UNCHANGED notebookVars
    /\ pc = "normalize"
    /\ IF ~NeedsConversion(image)
       THEN /\ pc' = "ocr"
            /\ UNCHANGED <<image, image_bytes, reencoded, response, exc,
                           raised, failedAt>>
       ELSE IF ~image.whole
       THEN Raise("normalize", Exc("OSError", "image file is truncated"))
                /\ UNCHANGED <<image, image_bytes, reencoded>>
       ELSE /\ image_bytes' = Bytes(SaveJPEG(ConvertRGB(image)))
            /\ image' = ImageOpen(SaveJPEG(ConvertRGB(image)))
            /\ reencoded' = TRUE
            /\ pc' = "ocr"
            /\ UNCHANGED <<response, exc, raised, failedAt>>
    /\ UNCHANGED <<model_input, ocrCalls, engineRuns, handed>>

\* text = pytesseract.image_to_string(image); return json.dumps({'text': text}):
\* lines 85-86.  The binding checks the format, writes the pixels to a file
\* and starts the engine; each of the three can raise.
PredictOcr ==
    /\ UNCHANGED notebookVars
    /\ pc = "ocr"
    /\ ocrCalls' = ocrCalls + 1
    /\ handed' = image
    /\ IF image.format \notin OcrSupported
       THEN Raise("ocr", Exc("TypeError", "Unsupported image format/type"))
                /\ UNCHANGED engineRuns
       ELSE IF ~image.whole
       THEN Raise("ocr", Exc("OSError", "image file is truncated"))
                /\ UNCHANGED engineRuns
       ELSE \E outcome \in EngineOutcomes :
              CASE outcome = "missing" ->
                     Raise("ocr", Exc("TesseractNotFoundError",
                                      "tesseract is not installed"))
                         /\ UNCHANGED engineRuns
                [] outcome = "crash" ->
                     Raise("ocr", Exc("TesseractError", "(1, 'Error')"))
                         /\ engineRuns' = engineRuns + 1
                [] outcome = "ok" ->
                     \E t \in EngineTexts(image) :
                         /\ response' = TextResponse(t)
                         /\ engineRuns' = engineRuns + 1
                         /\ pc' = "idle"
                         /\ UNCHANGED <<exc, raised, failedAt>>
    /\ UNCHANGED <<model_input, image_bytes, image, reencoded>>

InitPredict ==
    /\ pc = "idle"
    /\ model_input = None
    /\ image_bytes = None
    /\ image = None
    /\ response = None
    /\ exc = None
    /\ raised = FALSE
    /\ ocrCalls = 0
    /\ engineRuns = 0
    /\ handed = None
    /\ reencoded = FALSE
    /\ failedAt = "none"

NextPredict ==
    \/ \E mi \in Tables : PredictCall(mi)
    \/ PredictRead
    \/ PredictOpen
    \/ PredictNormalize
    \/ PredictOcr

(***************************************************************************)
(* The notebook: log, register, create the endpoint (lines 100-217),       *)
(* against a registry and a serving platform that outlive a run.           *)
(***************************************************************************)
\* Runs of the notebook explored.
MaxRuns == 3

\* Values config.py can give catalog, schema and tesseract_model_name (line 41).
Catalogs == {"main", "dev"}

Schemas == {"default"}

ModelNames == {"tesseract_ocr", "ocr"}

Configs ==
    [catalog : Catalogs, schema : Schemas, tesseract_model_name : ModelNames]

\* model_name = tesseract_model_name, line 130.
ModelName(c) == c.tesseract_model_name

\* A name without its catalog.
TwoPartName(c) == <<c.schema, ModelName(c)>>

\* f"{catalog}.{schema}.{model_name}", line 133.
RegisteredName(c) == <<c.catalog, c.schema, ModelName(c)>>

\* f"{catalog}.{schema}.{model_name}", line 202.
EntityName(c) == <<c.catalog, c.schema, ModelName(c)>>

\* "entity_version": "1", line 203.
EntityVersion == 1

\* A route that carries half of the traffic.
HalfRoutes(c) == <<[served_model_name |-> ModelName(c), traffic_percentage |-> 50]>>

\* "traffic_config": {"routes": [...]}, lines 208-215.
TrafficRoutes(c) ==
    <<[served_model_name |-> ModelName(c), traffic_percentage |-> 100]>>

\* "served_entities": [...], lines 199-207.
ServedEntities(c) ==
    <<[name |-> ModelName(c), entity_name |-> EntityName(c),
       entity_version |-> EntityVersion, workload_size |-> "Small",
       scale_to_zero_enabled |-> TRUE]>>

\* The config argument of create_endpoint, lines 198-216.
EndpointConfig(c) ==
    [served_entities |-> ServedEntities(c),
     traffic_config |-> [routes |-> TrafficRoutes(c)]]

\* f"runs:/{run.info.run_id}/ocr_model", lines 125 and 133.
ModelUri(id) == <<"runs", id, "ocr_model">>

\* The versions the registry holds of a name.
Versions(name) == IF name \in DOMAIN registry THEN registry[name] ELSE << >>

InitNotebook ==
    /\ config \in Configs
    /\ nbpc = "ready"
    /\ runs = 0
    /\ run_id = None
    /\ logged = {}
    /\ registry = << >>
    /\ registered = None
    /\ endpoints = << >>
    /\ endpoint = None

\* A run of the notebook begins: its names are unbound again.
NbStart ==
    /\ UNCHANGED predictVars
    /\ nbpc = "ready"
    /\ runs < MaxRuns
    /\ runs' = runs + 1
    /\ nbpc' = "log"
    /\ run_id' = None
    /\ registered' = None
    /\ endpoint' = None
    /\ UNCHANGED <<config, logged, registry, endpoints>>

\* A call of a platform API raises: the run stops at that cell.
NbAbort ==
    /\ UNCHANGED predictVars
    /\ nbpc \in {"log", "register", "endpoint"}
    /\ nbpc' = "ready"
    /\ UNCHANGED <<config, runs, run_id, logged, registry, registered,
                   endpoints, endpoint>>

\* with mlflow.start_run() as run: mlflow.pyfunc.log_model(...), lines 119-125.
NbLogModel ==
    /\ UNCHANGED predictVars
    /\ nbpc = "log"
    /\ run_id' = runs
    /\ logged' = logged \cup {ModelUri(runs)}
    /\ nbpc' = "register"
    /\ UNCHANGED <<config, runs, registry, registered, endpoints, endpoint>>

\* mlflow.register_model(model_uri, name), lines 127-133: a new version of the
\* name, numbered one past the versions the registry holds.
NbRegister ==
    /\ UNCHANGED predictVars
    /\ nbpc = "register"
    /\ ModelUri(run_id) \in logged
    /\ registry' = [n \in DOMAIN registry \cup {RegisteredName(config)} |->
                        IF n = RegisteredName(config)
                        THEN Append(Versions(n), ModelUri(run_id))
                        ELSE registry[n]]
    /\ registered' = [name |-> RegisteredName(config),
                      version |-> Len(Versions(RegisteredName(config))) + 1]
    /\ nbpc' = "endpoint"
    /\ UNCHANGED <<config, runs, run_id, logged, endpoints, endpoint>>

\* client.create_endpoint(name=model_name, config={...}), lines 195-217: the
\* platform refuses a name it already serves and an entity it cannot find.
NbCreateEndpoint ==
    /\ UNCHANGED predictVars
    /\ nbpc = "endpoint"
    /\ ModelName(config) \notin DOMAIN endpoints
    /\ LET e == EndpointConfig(config).served_entities[1]
       IN  e.entity_version \in 1..Len(Versions(e.entity_name))
    /\ endpoints' = [n \in DOMAIN endpoints \cup {ModelName(config)} |->
                        IF n = ModelName(config) THEN EndpointConfig(config)
                        ELSE endpoints[n]]
    /\ endpoint' = [name |-> ModelName(config), config |-> EndpointConfig(config)]
    /\ nbpc' = "ready"
    /\ UNCHANGED <<config, runs, run_id, logged, registry, registered>>

NextNotebook ==
    \/ NbStart
    \/ NbAbort
    \/ NbLogModel
    \/ NbRegister
    \/ NbCreateEndpoint

vars == <<predictVars, notebookVars>>

Init == InitPredict /\ InitNotebook

\* Calls of predict, the registry and the platform left alone.
SpecPredict == Init /\ [][NextPredict]_vars

\* Runs of the notebook.
SpecNotebook == Init /\ [][NextNotebook]_vars

(***************************************************************************)
(* Vocabulary of the properties.                                           *)
(***************************************************************************)
\* A call of predict has returned (or raised).
Done == pc = "idle" /\ model_input # None

\* The table of the call has a first 'image' cell.
HasCell == "image" \in DOMAIN model_input /\ Len(model_input.image) > 0

Cell == model_input.image[1]

\* The cell holds raw bytes of an image whose pixels load.
Decodable(c) ==
    /\ c.type = "bytes"
    /\ ImageOpen(c.val) # None
    /\ ImageOpen(c.val).whole

\* The cell holds bytes that are no image, or an image whose pixels do not load.
Undecodable(c) == c.type = "bytes" /\ ~Decodable(c)

\* The cell holds the base64 text (line 176) of the bytes of a decodable image.
Base64OfDecodable(c) ==
    /\ c.type = "str"
    /\ \E b \in Files : c.val = B64Encode(b) /\ Decodable(Bytes(b))

\* The image decoded from the cell, as line 73 opens it.
Original == ImageOpen(Cell.val)

IsError(r) == DOMAIN r = {"error"}

IsText(r) == DOMAIN r = {"text"}

\* C1: whatever step of a call of predict fails (reading the column, opening
\* the bytes, converting to JPEG, the OCR call), the exception does not leave
\* predict: the call returns the object {"error": <the exception's message>}.
C1_FailuresBecomeErrorResponses ==
    /\ ~raised
    /\ Done /\ exc # None => response = [error |-> exc.msg]
    /\ Done /\ exc = None => IsText(response)

\* The tesseract binary was missing: the call returned the error object.
C1_Witness ==
    /\ Done
    /\ exc # None
    /\ failedAt = "ocr"
    /\ exc.cls = "TesseractNotFoundError"
    /\ response = [error |-> "tesseract is not installed"]

\* C2: when the 'image' value is a byte sequence that does not decode as an
\* image, the response has an `error` field and no `text` field, and the OCR
\* engine was not run.
C2_UndecodableGivesErrorOnly ==
    Done /\ HasCell /\ Undecodable(Cell) =>
        /\ "error" \in DOMAIN response
        /\ "text" \notin DOMAIN response
        /\ engineRuns = 0

\* The PDF header was given as the image and the call returned.
C2_Witness ==
    /\ Done
    /\ HasCell
    /\ Cell = Bytes(<<37, 80, 68, 70>>)
    /\ response = [error |-> "cannot identify image file"]
    /\ ocrCalls = 0

\* C3 as stated: for a valid JPEG input containing known text the response
\* has a `text` field and no `error` field, and its value is the string the
\* engine returns for the decoded image, which was not re-encoded.
C3_Original ==
    Done /\ HasCell /\ Decodable(Cell) /\ Original.format = "JPEG" =>
        /\ response = [text |-> Shown(Original)]
        /\ ~reencoded

\* C3 amended: for a valid JPEG input the decoded image is handed to the OCR
\* call as it is, without conversion or re-encoding; when that call succeeds
\* the response is {"text": t} with t the string the engine returns for that
\* image, and when it fails the response is {"error": ...}.
C3_JpegTextIsEngineOutput ==
    Done /\ HasCell /\ Decodable(Cell) /\ Original.format = "JPEG" =>
        /\ ocrCalls = 1
        /\ handed = Original
        /\ ~reencoded
        /\ failedAt \in {"none", "ocr"}
        /\ failedAt = "none" => response = [text |-> Shown(Original)]
        /\ failedAt = "ocr" => IsError(response)

\* A JPEG showing "DAIS" was read as "DAIS".
C3_Witness ==
    /\ Done
    /\ HasCell
    /\ Decodable(Cell)
    /\ Original.format = "JPEG"
    /\ Original.ink = "DAIS"
    /\ response = [text |-> "DAIS"]

\* C4: for every decodable image that is not a JPEG, the text predict
\* returns after converting to RGB and re-encoding to JPEG is the text the
\* engine extracts from the image in its original format.  Stated for the
\* images most favourable to it: a format the OCR binding accepts as it is,
\* and bold glyphs, which lossy compression leaves legible.
C4_ReencodingKeepsText ==
    Done /\ HasCell /\ Decodable(Cell) /\ Original.format # "JPEG"
         /\ Original.format \in OcrSupported /\ Original.detail = "bold"
         /\ failedAt = "none" =>
        response = [text |-> Shown(Original)]

\* C5 as stated: on the base64 text of a decodable image predict answers as
\* on the raw bytes: the OCR call is reached and, when it succeeds, the
\* response is a `text` response.
C5_Original ==
    Done /\ HasCell /\ Base64OfDecodable(Cell) =>
        /\ ocrCalls = 1
        /\ failedAt = "none" => IsText(response)

\* C5 amended: predict decodes no base64.  On the raw bytes of a decodable
\* image the OCR call is reached and, when it succeeds, the response is a
\* `text` response; on the base64 text of those bytes the response is the
\* `error` of a TypeError raised when opening, and OCR is never called.
C5_RawBytesOnly ==
    /\ Done /\ HasCell /\ Decodable(Cell) =>
           /\ ocrCalls = 1
           /\ failedAt = "none" => IsText(response)
    /\ Done /\ HasCell /\ Base64OfDecodable(Cell) =>
           /\ failedAt = "open"
           /\ exc.cls = "TypeError"
           /\ IsError(response)
           /\ ocrCalls = 0
           /\ engineRuns = 0

\* The base64 text of a PNG was given and the call returned.
C5_Witness ==
    /\ Done
    /\ HasCell
    /\ Base64OfDecodable(Cell)
    /\ SubSeq(Cell.val, 1, 4) = <<"i", "V", "B", "O">>
    /\ IsError(response)

\* C8: whenever the OCR call is made the image handed to it has format JPEG;
\* a JPEG input is handed over as decoded, without conversion or
\* re-encoding; any other input is converted to RGB, saved as JPEG and
\* re-opened first, and image_bytes then holds the JPEG bytes.
C8_OcrAlwaysGetsJpeg ==
    /\ handed # None => handed.format = "JPEG"
    /\ pc = "ocr" => image.format = "JPEG"
    /\ handed # None /\ Original.format = "JPEG" =>
           /\ ~reencoded
           /\ handed = Original
           /\ image_bytes = Cell
    /\ handed # None /\ Original.format # "JPEG" =>
           /\ reencoded
           /\ handed = ImageOpen(SaveJPEG(ConvertRGB(Original)))
           /\ handed.mode = "RGB"
           /\ image_bytes = Bytes(SaveJPEG(ConvertRGB(Original)))

\* An ICO input, which the OCR binding would refuse, reached it as a JPEG.
C8_Witness ==
    /\ Done
    /\ HasCell
    /\ Decodable(Cell)
    /\ Original.format = "ICO"
    /\ reencoded
    /\ handed # None
    /\ handed.format = "JPEG"
    /\ IsText(response)

\* C9: a call of predict makes the OCR call at most once: exactly once when
\* reading, opening and normalising succeeded, never when one of them
\* failed; a failure of any step, the OCR call included, ends the call with
\* an error response and no further attempt.
C9_SinglePassNoRetry ==
    /\ ocrCalls <= 1
    /\ engineRuns <= ocrCalls
    /\ failedAt # "none" => pc = "idle" /\ IsError(response)
    /\ failedAt \in {"read", "open", "normalize"} => ocrCalls = 0
    /\ Done /\ failedAt \in {"none", "ocr"} => ocrCalls = 1
    /\ pc \in {"read", "open", "normalize", "ocr"} => ocrCalls = 0

\* The engine crashed: one call, one run, an error response.
C9_Witness ==
    /\ Done
    /\ failedAt = "ocr"
    /\ exc.cls = "TesseractError"
    /\ ocrCalls = 1
    /\ engineRuns = 1
    /\ IsError(response)

(***************************************************************************)
(* Properties of the notebook.                                             *)
(***************************************************************************)
RECURSIVE TotalTraffic(_)
TotalTraffic(routes) ==
    IF Len(routes) = 0 THEN 0
    ELSE routes[1].traffic_percentage + TotalTraffic(Tail(routes))

\* C6: the config passed to create_endpoint has exactly one served entity,
\* the percentages of its routes add up to 100, and every route names that
\* served entity.
C6_AllTrafficToOneEntity ==
    \A n \in DOMAIN endpoints :
        LET cfg == endpoints[n]
        IN  /\ Len(cfg.served_entities) = 1
            /\ Len(cfg.traffic_config.routes) >= 1
            /\ TotalTraffic(cfg.traffic_config.routes) = 100
            /\ \A i \in 1..Len(cfg.traffic_config.routes) :
                   cfg.traffic_config.routes[i].served_model_name
                       = cfg.served_entities[1].name

\* An endpoint was created.
C6_Witness ==
    /\ endpoint # None
    /\ endpoint.name \in DOMAIN endpoints
    /\ endpoints[endpoint.name].traffic_config.routes[1].traffic_percentage = 100

\* C7: the model is registered under the three-part name
\* (catalog, schema, model_name); an endpoint is created only after the
\* registration of the same run; the served entity_name is that three-part
\* name; every endpoint serves a name of which the registry holds a version.
C7_EndpointServesRegisteredName ==
    /\ registered # None =>
           /\ registered.name
                  = <<config.catalog, config.schema, config.tesseract_model_name>>
           /\ Len(Versions(registered.name)) >= registered.version
           /\ Versions(registered.name)[registered.version] = ModelUri(run_id)
    /\ endpoint # None =>
           /\ registered # None
           /\ endpoint.config.served_entities[1].entity_name = registered.name
    /\ \A n \in DOMAIN endpoints :
           Len(Versions(endpoints[n].served_entities[1].entity_name)) >= 1

\* A run registered the model and created the endpoint.
C7_Witness ==
    /\ endpoint # None
    /\ registered # None
    /\ endpoint.config.served_entities[1].entity_name = <<"main", "default", "ocr">>
    /\ Len(Versions(<<"main", "default", "ocr">>)) >= 1

\* C10: the entity version the endpoint created by a run serves is the model
\* version the register step of that run created.
C10_EndpointServesVersionOfRun ==
    endpoint # None =>
        /\ registered # None
        /\ endpoint.config.served_entities[1].entity_name = registered.name
        /\ endpoint.config.served_entities[1].entity_version = registered.version

====
